---- MODULE Spec2Model ----
(***************************************************************************)
(* Model of data-platform-light:                                           *)
(*   - pipelines/dlt/pipelines.py : the pipeline stubs and the CLI block   *)
(*   - scripts/validate_env.py    : the environment validation script      *)
(* One behaviour is a sequence of process invocations of one of the two    *)
(* programs over a durable Bronze store (cursors, landing files,           *)
(* manifests) that outlives each process.                                  *)
(***************************************************************************)
EXTENDS Integers, Sequences, FiniteSets, TLC

VARIABLES
    program,        \* which script this behaviour runs
    pc,             \* position of the running process in its script
    runs,           \* number of process invocations so far
    \* ---- pipelines.py process state
    sys_argv,       \* sys.argv, script name at index 1 (Python index 0)
    pipeline_name,  \* pipelines.py:102
    days,           \* pipelines.py:114
    called,         \* pipeline functions invoked by this process, in order
    stdout,         \* messages printed by this process, in order
    uncaught,       \* exception that escaped the top level, or NoException
    exit_code,      \* process exit status, or Running
    \* ---- durable Bronze store, shared by successive processes
    cursor,         \* source -> stored cursor position, or NoCursor
    landing,        \* number of JSONL landing files
    manifest,       \* number of manifest files
    pre_cursor,     \* the cursor as the current process found it
    pre_landing,    \* the landing files as the current process found them
    pre_manifest,   \* the manifests as the current process found them
    \* ---- validate_env.py process state and its environment
    env,            \* os.environ restricted to the required variables
    fs,             \* which of ./bronze, ./config, ./bronze/.test_write exist
    http_log,       \* calls of requests.get, in order
    results,        \* the local list of the check function that is running
    all_checks,     \* main's all_checks, as far as it is built
    printed,        \* lines main printed, in order
    section,        \* index of the section the outer loop is at
    idx,            \* index of the check the inner loop is at
    section_passed, \* validate_env.py:192
    total_passed,   \* validate_env.py:187
    total_checks    \* validate_env.py:188

procVars  == <<sys_argv, pipeline_name, days, called, stdout, uncaught, exit_code>>
storeVars == <<cursor, landing, manifest>>
preVars   == <<pre_cursor, pre_landing, pre_manifest>>
envVars   == <<env, fs, http_log>>
mainVars  == <<results, all_checks, printed, section, idx, section_passed,
               total_passed, total_checks>>
vars      == <<program, pc, runs, procVars, storeVars, preVars, envVars,
               mainVars>>

----------------------------------------------------------------------------
(* Bounds of the model *)

MaxArgs == 2        \* command-line arguments after the script name
MaxRuns == 2        \* successive process invocations
MaxFaults == 2      \* things wrong with the environment of one validation

----------------------------------------------------------------------------
(* pipelines.py *)

\* Python's None, and a present value, for fields that hold either.
None    == <<>>
Some(x) == <<x>>

NoException == "NoException"
Unbound     == "<unbound>"   \* a name not assigned yet
NoCursor    == None      \* no cursor stored yet for the source
Running     == None      \* the process has no exit status yet

Sources == {"jira", "bitbucket", "jenkins"}

\* Cursor positions a store can hold before a run: none yet, or a position
\* expressed as "days ago".
CursorPositions == {NoCursor, Some(5), Some(30)}

\* Command-line words tried as arguments.
ArgWords == {"jira", "bitbucket", "jenkins", "backfill", "deploy",
             "30", "-7", "abc", " 12 "}

\* The characters of each command-line word (TLC strings are atomic).
Chars(w) ==
    CASE w = "jira"      -> <<"j", "i", "r", "a">>
      [] w = "bitbucket" -> <<"b", "i", "t", "b", "u", "c", "k", "e", "t">>
      [] w = "jenkins"   -> <<"j", "e", "n", "k", "i", "n", "s">>
      [] w = "backfill"  -> <<"b", "a", "c", "k", "f", "i", "l", "l">>
      [] w = "deploy"    -> <<"d", "e", "p", "l", "o", "y">>
      [] w = "30"        -> <<"3", "0">>
      [] w = "-7"        -> <<"-", "7">>
      [] w = "abc"       -> <<"a", "b", "c">>
      [] w = " 12 "      -> <<" ", "1", "2", " ">>

Digits == {"0", "1", "2", "3", "4", "5", "6", "7", "8", "9"}

DigitValue(c) ==
    CASE c = "0" -> 0 [] c = "1" -> 1 [] c = "2" -> 2 [] c = "3" -> 3
      [] c = "4" -> 4 [] c = "5" -> 5 [] c = "6" -> 6 [] c = "7" -> 7
      [] c = "8" -> 8 [] c = "9" -> 9

RECURSIVE LStrip(_)
LStrip(s) == IF s # <<>> /\ Head(s) = " " THEN LStrip(Tail(s)) ELSE s

RECURSIVE RStrip(_)
RStrip(s) ==
    IF s # <<>> /\ s[Len(s)] = " " THEN RStrip(SubSeq(s, 1, Len(s) - 1)) ELSE s

RECURSIVE DecimalValue(_)
DecimalValue(s) ==
    IF s = <<>> THEN 0
    ELSE 10 * DecimalValue(SubSeq(s, 1, Len(s) - 1)) + DigitValue(s[Len(s)])

\* Python's int(str): surrounding whitespace is stripped, one optional sign,
\* then at least one decimal digit; anything else raises ValueError.
int(w) ==
    LET s      == RStrip(LStrip(Chars(w)))
        signed == s # <<>> /\ Head(s) \in {"+", "-"}
        body   == IF signed THEN Tail(s) ELSE s
        ok     == body # <<>> /\ \A i \in 1..Len(body) : body[i] \in Digits
    IN  IF ~ok THEN [raised |-> "ValueError", value |-> None]
        ELSE [raised |-> NoException,
              value  |-> IF signed /\ Head(s) = "-"
                         THEN Some(0 - DecimalValue(body))
                         ELSE Some(DecimalValue(body))]

\* The durable store as a pipeline function sees it.
Store == [cursor |-> cursor, landing |-> landing, manifest |-> manifest]

\* What a call of a pipeline function amounts to: the exception it raises
\* or the value it returns, whether it called load_config, and the store
\* it leaves.
Outcome(raised, value, config_read, st) ==
    [raised |-> raised, value |-> value, config_read |-> config_read,
     store |-> st]

\* raise NotImplementedError(...) as the only statement of a body.
NotImplemented(st) == Outcome("NotImplementedError", None, FALSE, st)

\* A jira_pipeline that advances the cursor before it fails.
jira_pipeline_advances(st) ==
    Outcome("NotImplementedError", None, FALSE,
            [st EXCEPT !.cursor = [st.cursor EXCEPT !["jira"] = Some(0)]])

\* jira_pipeline(): the body is a single raise.
jira_pipeline(st) == NotImplemented(st)

\* A bitbucket_pipeline that loads the configuration and returns a source.
bitbucket_pipeline_returns(st) ==
    Outcome(NoException, Some("DltSource"), TRUE, st)

\* bitbucket_pipeline(): the body is a single raise.
bitbucket_pipeline(st) == NotImplemented(st)

\* jenkins_pipeline(): the body is a single raise.
jenkins_pipeline(st) == NotImplemented(st)

\* backfill_pipeline(days): the body is a single raise; days is not used.
backfill_pipeline(d, st) == NotImplemented(st)

\* Exit status of a Python process whose top level lets an exception escape.
UncaughtExitCode == 1
\* Exit status of a process killed by SIGKILL.
KilledExitCode == 137
\* backfill's day-count when no second argument is given.
DefaultDays == 120

\* An index taken one too low.
ArgvShifted(i) == sys_argv[i]

\* Python's sys.argv[i] (0-based) in the 1-based sequence.
Argv(i) == sys_argv[i + 1]

ArgVectors == UNION {[1..n -> ArgWords] : n \in 0..MaxArgs}

\* A process of pipelines.py starts with the given arguments.
StartPipelines(args) ==
    /\ sys_argv' = <<"pipelines.py">> \o args
    /\ pc' = "main"
    /\ pipeline_name' = Unbound
    /\ days' = None
    /\ called' = <<>>
    /\ stdout' = <<>>
    /\ uncaught' = NoException
    /\ exit_code' = Running

\* A top level that swallows the exception of a failed call and exits 0.
AfterCallSwallow(fn, arg, r, message) ==
    /\ called' = Append(called, [fn |-> fn, arg |-> arg, raised |-> r.raised,
                                 value |-> r.value,
                                 config_read |-> r.config_read])
    /\ cursor' = r.store.cursor
    /\ landing' = r.store.landing
    /\ manifest' = r.store.manifest
    /\ stdout' = Append(stdout, message)
    /\ exit_code' = Some(0)
    /\ UNCHANGED uncaught
    /\ pc' = "exited"

\* The statement after a call: the success message and falling off the end
\* of the script when the call returned, the interpreter's traceback exit
\* when it raised.
AfterCall(fn, arg, r, message) ==
    /\ called' = Append(called, [fn |-> fn, arg |-> arg, raised |-> r.raised,
                                 value |-> r.value,
                                 config_read |-> r.config_read])
    /\ cursor' = r.store.cursor
    /\ landing' = r.store.landing
    /\ manifest' = r.store.manifest
    /\ IF r.raised # NoException
       THEN /\ uncaught' = r.raised
            /\ exit_code' = Some(UncaughtExitCode)
            /\ UNCHANGED stdout
       ELSE /\ stdout' = Append(stdout, message)
            /\ exit_code' = Some(0)
            /\ UNCHANGED uncaught
    /\ pc' = "exited"

\* if len(sys.argv) < 2: usage, sys.exit(1); pipeline_name = sys.argv[1]
CheckArgs ==
    /\ program = "pipelines.py"
    /\ pc = "main"
    /\ IF Len(sys_argv) < 2
       THEN /\ stdout' = Append(stdout, "Usage")
            /\ exit_code' = Some(1)
            /\ pc' = "exited"
            /\ UNCHANGED pipeline_name
       ELSE /\ pipeline_name' = Argv(1)
            /\ pc' = "dispatch"
            /\ UNCHANGED <<stdout, exit_code>>
    /\ UNCHANGED <<program, runs, sys_argv, days, called, uncaught,
                   storeVars, preVars, envVars, mainVars>>

\* The if/elif chain on pipeline_name, up to the call it selects.
Dispatch ==
    /\ program = "pipelines.py"
    /\ pc = "dispatch"
    /\ IF pipeline_name = "jira" THEN
            /\ pc' = "call_jira"
            /\ UNCHANGED <<stdout, exit_code>>
       ELSE IF pipeline_name = "bitbucket" THEN
            /\ pc' = "call_bitbucket"
            /\ UNCHANGED <<stdout, exit_code>>
       ELSE IF pipeline_name = "jenkins" THEN
            /\ pc' = "call_jenkins"
            /\ UNCHANGED <<stdout, exit_code>>
       ELSE IF pipeline_name = "backfill" THEN
            /\ pc' = "parse_days"
            /\ UNCHANGED <<stdout, exit_code>>
       ELSE /\ stdout' = Append(stdout, "Unknown pipeline")
            /\ exit_code' = Some(1)
            /\ pc' = "exited"
    /\ UNCHANGED <<program, runs, sys_argv, pipeline_name, days, called,
                   uncaught, storeVars, preVars, envVars, mainVars>>

\* source = jira_pipeline(); print(...)
CallJira ==
    /\ program = "pipelines.py"
    /\ pc = "call_jira"
    /\ AfterCall("jira_pipeline", None, jira_pipeline(Store),
                 "Jira pipeline created")
    /\ UNCHANGED <<program, runs, sys_argv, pipeline_name, days, preVars, envVars, mainVars>>

\* source = bitbucket_pipeline(); print(...)
CallBitbucket ==
    /\ program = "pipelines.py"
    /\ pc = "call_bitbucket"
    /\ AfterCall("bitbucket_pipeline", None, bitbucket_pipeline(Store),
                 "Bitbucket pipeline created")
    /\ UNCHANGED <<program, runs, sys_argv, pipeline_name, days, preVars, envVars, mainVars>>

\* source = jenkins_pipeline(); print(...)
CallJenkins ==
    /\ program = "pipelines.py"
    /\ pc = "call_jenkins"
    /\ AfterCall("jenkins_pipeline", None, jenkins_pipeline(Store),
                 "Jenkins pipeline created")
    /\ UNCHANGED <<program, runs, sys_argv, pipeline_name, days, preVars, envVars, mainVars>>

\* days = int(sys.argv[2]) if len(sys.argv) > 2 else 120
ParseDays ==
    /\ program = "pipelines.py"
    /\ pc = "parse_days"
    /\ LET r == IF Len(sys_argv) > 2 THEN int(Argv(2))
                ELSE [raised |-> NoException, value |-> Some(DefaultDays)]
       IN  IF r.raised # NoException
           THEN /\ uncaught' = r.raised
                /\ exit_code' = Some(UncaughtExitCode)
                /\ pc' = "exited"
                /\ UNCHANGED days
           ELSE /\ days' = r.value
                /\ pc' = "call_backfill"
                /\ UNCHANGED <<uncaught, exit_code>>
    /\ UNCHANGED <<program, runs, sys_argv, pipeline_name, called, stdout,
                   storeVars, preVars, envVars, mainVars>>

\* backfill_pipeline(days); print(...)
CallBackfill ==
    /\ program = "pipelines.py"
    /\ pc = "call_backfill"
    /\ AfterCall("backfill_pipeline", days, backfill_pipeline(days[1], Store),
                 "Backfill completed")
    /\ UNCHANGED <<program, runs, sys_argv, pipeline_name, days, preVars, envVars, mainVars>>

\* The operating system kills the process at any point of the script; the
\* script installs no handler.
Kill ==
    /\ program = "pipelines.py"
    /\ pc \notin {"exited", "killed"}
    /\ pc' = "killed"
    /\ exit_code' = Some(KilledExitCode)
    /\ UNCHANGED <<program, runs, sys_argv, pipeline_name, days, called,
                   stdout, uncaught, storeVars, preVars, envVars, mainVars>>

\* The process is gone: its memory is reclaimed, the store stays.
Reap ==
    /\ program = "pipelines.py"
    /\ pc \in {"exited", "killed"}
    /\ pc' = "shell"
    /\ sys_argv' = <<>>
    /\ pipeline_name' = Unbound
    /\ days' = None
    /\ called' = <<>>
    /\ stdout' = <<>>
    /\ uncaught' = NoException
    /\ exit_code' = Running
    /\ UNCHANGED <<program, runs, storeVars, preVars, envVars, mainVars>>

\* The script is invoked over the store the last process left.
Invoke ==
    /\ program = "pipelines.py"
    /\ pc = "shell"
    /\ runs < MaxRuns
    /\ runs' = runs + 1
    /\ \E args \in ArgVectors : StartPipelines(args)
    /\ pre_cursor' = cursor
    /\ pre_landing' = landing
    /\ pre_manifest' = manifest
    /\ UNCHANGED <<program, storeVars, envVars, mainVars>>

InitPipelines ==
    /\ program = "pipelines.py"
    /\ pc = "shell"
    /\ runs = 0
    /\ sys_argv = <<>>
    /\ pipeline_name = Unbound
    /\ days = None
    /\ called = <<>>
    /\ stdout = <<>>
    /\ uncaught = NoException
    /\ exit_code = Running
    /\ cursor \in [Sources -> CursorPositions]
    /\ landing \in 0..1
    /\ manifest = landing
    /\ pre_cursor = cursor
    /\ pre_landing = landing
    /\ pre_manifest = manifest
    /\ env = <<>>
    /\ fs = {}
    /\ http_log = <<>>
    /\ results = <<>>
    /\ all_checks = <<>>
    /\ printed = <<>>
    /\ section = 0
    /\ idx = 0
    /\ section_passed = 0
    /\ total_passed = 0
    /\ total_checks = 0


----------------------------------------------------------------------------
(* validate_env.py *)

\* required_vars, in the order of the list.
required_vars ==
    <<"JIRA_URL", "JIRA_EMAIL", "JIRA_API_TOKEN",
      "BITBUCKET_WORKSPACE", "BITBUCKET_USERNAME", "BITBUCKET_APP_PASSWORD",
      "JENKINS_URL", "JENKINS_USERNAME", "JENKINS_API_TOKEN">>

RequiredVars == {required_vars[i] : i \in 1..Len(required_vars)}

\* Values of an environment variable: unset, or a string given by its
\* characters: empty, whitespace-only, or a well-formed value.
Unset      == None
EmptyStr   == Some(<<>>)
BlankStr   == Some(<<" ">>)
GoodStr    == Some(<<"v">>)
BadValues  == {Unset, EmptyStr, BlankStr}

\* os.getenv(var)
getenv(var) == env[var]

\* value is not None and value.strip() != ""
is_set(value) == value # None /\ RStrip(LStrip(value[1])) # <<>>

\* Python truthiness of an Optional[str], as all([...]) tests it.
truthy(value) == value # None /\ value[1] # <<>>

\* A (name, passed, message) tuple of a results list.
Result(name, passed, message) ==
    [name |-> name, passed |-> passed, message |-> message]

RECURSIVE env_results(_)
\* The loop of check_env_vars over the first n required variables.
env_results(n) ==
    IF n = 0 THEN <<>>
    ELSE LET var   == required_vars[n]
             value == getenv(var)
         IN  Append(env_results(n - 1),
                    Result(var, is_set(value),
                           IF is_set(value) THEN "Set" ELSE "Missing or empty"))

\* check_env_vars()
check_env_vars == env_results(Len(required_vars))

\* What requests.get can do once it is called.
Response(code) == [raised |-> NoException, status_code |-> code]
Raises(exc)    == [raised |-> exc, status_code |-> 0]
HttpOutcomes   == {Response(200), Response(401), Raises("Timeout")}

\* requests.get on a URL that starts with the value of an environment
\* variable: a value that is blank once leading whitespace is removed leaves
\* the URL without a scheme, and it is refused before anything is sent.
HttpPossible(url) ==
    IF truthy(url) /\ LStrip(url[1]) = <<>> THEN {Raises("MissingSchema")}
    ELSE HttpOutcomes

\* A try block that takes any response for a connection.
ProbeNoStatusCheck(api, url, user, token, outcome) ==
    IF truthy(url) /\ truthy(user) /\ truthy(token)
    THEN IF outcome.raised # NoException
         THEN Result(api, FALSE, "Error: " \o outcome.raised)
         ELSE Result(api, TRUE, "Connected")
    ELSE Result(api, FALSE, "Missing credentials")

\* One try block of check_api_connectivity: the three credentials, the
\* request when all three are truthy, and the tuple appended to results.
Probe(api, url, user, token, outcome) ==
    IF truthy(url) /\ truthy(user) /\ truthy(token)
    THEN IF outcome.raised # NoException
         THEN Result(api, FALSE, "Error: " \o outcome.raised)
         ELSE IF outcome.status_code = 200
              THEN Result(api, TRUE, "Connected")
              ELSE Result(api, FALSE, "HTTP " \o ToString(outcome.status_code))
    ELSE Result(api, FALSE, "Missing credentials")

\* Whether the try block reaches requests.get.
Requests(url, user, token) == truthy(url) /\ truthy(user) /\ truthy(token)

\* Failed results that come from a fault of their own rather than from the
\* environment variables or the file system the process started with.
RECURSIVE OwnFaults(_)
OwnFaults(rs) ==
    IF rs = <<>> THEN 0
    ELSE OwnFaults(Tail(rs)) +
         (IF /\ ~Head(rs).passed
             /\ Head(rs).name \notin RequiredVars \cup {"Config directory"}
             /\ Head(rs).message \notin {"Missing credentials",
                                         "Error: MissingSchema"}
          THEN 1 ELSE 0)

RECURSIVE Flatten(_)
\* The check tuples of a list of (section_name, checks) pairs, in order.
Flatten(sections) ==
    IF sections = <<>> THEN <<>>
    ELSE Head(sections).checks \o Flatten(Tail(sections))

\* Things wrong with the environment so far.
Faults ==
    Cardinality({v \in RequiredVars : ~is_set(env[v])})
    + (IF "./config" \in fs THEN 0 ELSE 1)
    + OwnFaults(Flatten(all_checks) \o results)

\* A failure may still be injected.
MayFail == Faults < MaxFaults

Section(name, checks) == [section_name |-> name, checks |-> checks]

\* ("Environment Variables", check_env_vars())
CheckEnvVars ==
    /\ program = "validate_env.py"
    /\ pc = "check_env_vars"
    /\ all_checks' = Append(all_checks,
                            Section("Environment Variables", check_env_vars))
    /\ pc' = "probe_jira"
    /\ UNCHANGED <<program, runs, procVars, storeVars, preVars, envVars,
                   results, printed, section, idx, section_passed,
                   total_passed, total_checks>>

\* The common shape of the three try blocks: possible is what requests.get
\* can do with the URL the block builds.
ProbeStep(api, url, user, token, possible, next) ==
    /\ IF Requests(url, user, token)
       THEN \E outcome \in possible :
               /\ outcome \in {Response(200), Raises("MissingSchema")} \/ MayFail
               /\ results' = Append(results,
                                    Probe(api, url, user, token, outcome))
               /\ http_log' = Append(http_log,
                      [api |-> api, sent |-> outcome # Raises("MissingSchema"),
                       raised |-> outcome.raised,
                       status_code |-> outcome.status_code])
       ELSE /\ results' = Append(results,
                                 Probe(api, url, user, token, Response(200)))
            /\ UNCHANGED http_log
    /\ pc' = next
    /\ UNCHANGED <<program, runs, procVars, storeVars, preVars, env, fs,
                   all_checks, printed, section, idx, section_passed,
                   total_passed, total_checks>>

\* # Test Jira: f"{jira_url}/rest/api/3/myself"
ProbeJira ==
    /\ program = "validate_env.py"
    /\ pc = "probe_jira"
    /\ ProbeStep("Jira API", getenv("JIRA_URL"), getenv("JIRA_EMAIL"),
                 getenv("JIRA_API_TOKEN"), HttpPossible(getenv("JIRA_URL")),
                 "probe_bitbucket")

\* # Test Bitbucket: the URL has the fixed prefix https://api.bitbucket.org
ProbeBitbucket ==
    /\ program = "validate_env.py"
    /\ pc = "probe_bitbucket"
    /\ ProbeStep("Bitbucket API", getenv("BITBUCKET_WORKSPACE"),
                 getenv("BITBUCKET_USERNAME"),
                 getenv("BITBUCKET_APP_PASSWORD"), HttpOutcomes,
                 "probe_jenkins")

\* # Test Jenkins: f"{jenkins_url}/api/json"
ProbeJenkins ==
    /\ program = "validate_env.py"
    /\ pc = "probe_jenkins"
    /\ ProbeStep("Jenkins API", getenv("JENKINS_URL"),
                 getenv("JENKINS_USERNAME"), getenv("JENKINS_API_TOKEN"),
                 HttpPossible(getenv("JENKINS_URL")), "return_api")

\* return results; ("API Connectivity", check_api_connectivity())
ReturnApi ==
    /\ program = "validate_env.py"
    /\ pc = "return_api"
    /\ all_checks' = Append(all_checks, Section("API Connectivity", results))
    /\ results' = <<>>
    /\ pc' = "check_directories"
    /\ UNCHANGED <<program, runs, procVars, storeVars, preVars, envVars,
                   printed, section, idx, section_passed, total_passed,
                   total_checks>>

\* The try block on ./bronze: mkdir, write_text and unlink of .test_write,
\* each of which may raise; step names the first call that raises, if any.
BronzeOutcomes == {"ok", "mkdir", "write_text", "unlink"}

BronzeResult(step) ==
    IF step = "ok" THEN Result("Bronze directory", TRUE, "Writable")
    ELSE Result("Bronze directory", FALSE, "Error: OSError")

BronzeFiles(step) ==
    CASE step = "mkdir"      -> fs
      [] step = "write_text" -> fs \cup {"./bronze"}
      [] step = "unlink"     -> fs \cup {"./bronze", "./bronze/.test_write"}
      [] step = "ok"         -> fs \cup {"./bronze"}

\* if config_dir.exists(): ... else: ...
ConfigResult ==
    IF "./config" \in fs THEN Result("Config directory", TRUE, "Exists")
    ELSE Result("Config directory", FALSE, "Missing")

\* ("Directories & Permissions", check_directories())
CheckDirectories ==
    /\ program = "validate_env.py"
    /\ pc = "check_directories"
    /\ \E step \in BronzeOutcomes :
          /\ step = "ok" \/ MayFail
          /\ fs' = BronzeFiles(step)
          /\ all_checks' = Append(all_checks,
                Section("Directories & Permissions",
                        <<BronzeResult(step), ConfigResult>>))
    /\ pc' = "check_dependencies"
    /\ UNCHANGED <<program, runs, procVars, storeVars, preVars, env, http_log,
                   results, printed, section, idx, section_passed,
                   total_passed, total_checks>>

\* safe_packages, in the order of the list.
safe_packages == <<"requests", "yaml", "pandas", "pyarrow">>

RECURSIVE import_results(_, _)
\* The loop over the first n safe packages; missing are those whose import
\* raises ImportError.
import_results(n, missing) ==
    IF n = 0 THEN <<>>
    ELSE LET package == safe_packages[n]
         IN  Append(import_results(n - 1, missing),
                    IF package \in missing
                    THEN Result("Python: " \o package, FALSE, "Not installed")
                    ELSE Result("Python: " \o package, TRUE, "Installed"))

\* The subprocess that imports dlt: it returns 0, returns non-zero, or
\* subprocess.run raises.
DltOutcomes == {"returncode 0", "returncode 1", "raises"}

DltResult(outcome) ==
    CASE outcome = "returncode 0" ->
            Result("Python: dlt", TRUE, "Installed (v)")
      [] outcome = "returncode 1" ->
            Result("Python: dlt", FALSE, "Import failed")
      [] outcome = "raises" ->
            Result("Python: dlt", FALSE, "Error: TimeoutExpired")

\* ("Python Dependencies", check_dependencies()); the list is complete.
CheckDependencies ==
    /\ program = "validate_env.py"
    /\ pc = "check_dependencies"
    /\ \E missing \in SUBSET {safe_packages[i] : i \in 1..Len(safe_packages)},
          dlt \in DltOutcomes :
          /\ Faults + Cardinality(missing)
                + (IF dlt = "returncode 0" THEN 0 ELSE 1) <= MaxFaults
          /\ all_checks' = Append(all_checks,
                Section("Python Dependencies",
                        Append(import_results(Len(safe_packages), missing),
                               DltResult(dlt))))
    /\ total_passed' = 0
    /\ total_checks' = 0
    /\ section' = 0
    /\ pc' = "for_section"
    /\ UNCHANGED <<program, runs, procVars, storeVars, preVars, envVars,
                   results, printed, idx, section_passed>>

Line(text, n, d) == [text |-> text, n |-> n, d |-> d]

\* The two prints that open main.
MainBegin ==
    /\ program = "validate_env.py"
    /\ pc = "main"
    /\ printed' = Append(printed, Line("Environment Validation", 0, 0))
    /\ pc' = "check_env_vars"
    /\ UNCHANGED <<program, runs, procVars, storeVars, preVars, envVars,
                   results, all_checks, section, idx, section_passed,
                   total_passed, total_checks>>

\* for section_name, checks in all_checks: print; section_passed = 0
SectionBegin ==
    /\ program = "validate_env.py"
    /\ pc = "for_section"
    /\ section < Len(all_checks)
    /\ section' = section + 1
    /\ printed' = Append(printed,
                         Line(all_checks[section + 1].section_name, 0, 0))
    /\ section_passed' = 0
    /\ idx' = 0
    /\ pc' = "for_check"
    /\ UNCHANGED <<program, runs, procVars, storeVars, preVars, envVars,
                   results, all_checks, total_passed, total_checks>>

\* for name, passed, message in checks: one iteration
CheckStep ==
    /\ program = "validate_env.py"
    /\ pc = "for_check"
    /\ idx < Len(all_checks[section].checks)
    /\ LET check == all_checks[section].checks[idx + 1]
       IN  /\ printed' = Append(printed, Line(check.name, 0, 0))
           /\ section_passed' =
                 IF check.passed THEN section_passed + 1 ELSE section_passed
    /\ total_checks' = total_checks + 1
    /\ idx' = idx + 1
    /\ UNCHANGED <<program, pc, runs, procVars, storeVars, preVars, envVars,
                   results, all_checks, section, total_passed>>

\* The inner loop is exhausted: total_passed += section_passed; print
SectionEnd ==
    /\ program = "validate_env.py"
    /\ pc = "for_check"
    /\ idx = Len(all_checks[section].checks)
    /\ total_passed' = total_passed + section_passed
    /\ printed' = Append(printed,
                         Line("passed", section_passed,
                              Len(all_checks[section].checks)))
    /\ pc' = "for_section"
    /\ UNCHANGED <<program, runs, procVars, storeVars, preVars, envVars,
                   results, all_checks, section, idx, section_passed,
                   total_checks>>

\* A verdict that is satisfied with any passed check.
main_result_any == IF total_passed > 0 THEN 0 ELSE 1

\* The value main returns.
main_result == IF total_passed = total_checks THEN 0 ELSE 1

\* The outer loop is exhausted: the overall line, the verdict, and
\* sys.exit(main()).
Finish ==
    /\ program = "validate_env.py"
    /\ pc = "for_section"
    /\ section = Len(all_checks)
    /\ printed' = printed \o
          <<Line("Overall", total_passed, total_checks),
            Line(IF main_result = 0 THEN "All checks passed"
                 ELSE "Some checks failed", 0, 0)>>
    /\ exit_code' = Some(main_result)
    /\ pc' = "exited"
    /\ UNCHANGED <<program, runs, sys_argv, pipeline_name, days, called,
                   stdout, uncaught, storeVars, preVars, envVars, results,
                   all_checks, section, idx, section_passed, total_passed,
                   total_checks>>

\* Environments with at most MaxFaults things wrong among the required
\* variables and the config directory.
Environments ==
    UNION {{[v \in RequiredVars |-> IF v \in bad THEN f[v] ELSE GoodStr] :
               f \in [bad -> BadValues]} :
           bad \in {b \in SUBSET RequiredVars : Cardinality(b) <= MaxFaults}}

InitValidate ==
    /\ program = "validate_env.py"
    /\ pc = "main"
    /\ runs = 1
    /\ env \in Environments
    /\ fs \in SUBSET {"./bronze", "./config"}
    /\ Cardinality({v \in RequiredVars : ~is_set(env[v])})
          + (IF "./config" \in fs THEN 0 ELSE 1) <= MaxFaults
    /\ http_log = <<>>
    /\ results = <<>>
    /\ all_checks = <<>>
    /\ printed = <<>>
    /\ section = 0
    /\ idx = 0
    /\ section_passed = 0
    /\ total_passed = 0
    /\ total_checks = 0
    /\ sys_argv = <<"validate_env.py">>
    /\ pipeline_name = Unbound
    /\ days = None
    /\ called = <<>>
    /\ stdout = <<>>
    /\ uncaught = NoException
    /\ exit_code = Running
    /\ cursor = [s \in Sources |-> NoCursor]
    /\ landing = 0
    /\ manifest = 0
    /\ pre_cursor = cursor
    /\ pre_landing = landing
    /\ pre_manifest = manifest

Init == InitPipelines \/ InitValidate

Next ==
    \/ CheckArgs
    \/ Dispatch
    \/ CallJira
    \/ CallBitbucket
    \/ CallJenkins
    \/ ParseDays
    \/ CallBackfill
    \/ Kill
    \/ Reap
    \/ Invoke
    \/ MainBegin
    \/ CheckEnvVars
    \/ ProbeJira
    \/ ProbeBitbucket
    \/ ProbeJenkins
    \/ ReturnApi
    \/ CheckDirectories
    \/ CheckDependencies
    \/ SectionBegin
    \/ CheckStep
    \/ SectionEnd
    \/ Finish

Spec == Init /\ [][Next]_vars
----------------------------------------------------------------------------
(* Properties of pipelines.py *)

Pipelines == program = "pipelines.py"
Exited    == Pipelines /\ pc = "exited"

\* The arguments after the script name.
Args == Tail(sys_argv)

\* A pipeline function this process called raised.
RunFailed == \E i \in 1..Len(called) : called[i].raised # NoException

\* This process called a pipeline function and every call returned.
RunSucceeded ==
    /\ called # <<>>
    /\ \A i \in 1..Len(called) : called[i].raised = NoException

SuccessMessages ==
    {"Jira pipeline created", "Bitbucket pipeline created",
     "Jenkins pipeline created", "Backfill completed"}

Printed(message) == \E i \in 1..Len(stdout) : stdout[i] = message

\* C1: a run that ended in failure, or a process that was killed at any point
\* of the script, leaves the stored cursor of every source at its pre-run
\* value, and the next process finds the cursor the previous one found: no
\* step of the script other than a commit changes the cursor, and the script
\* has no commit.
C1_FailedRunKeepsCursor ==
    /\ [](Pipelines /\ (pc = "killed" \/ (pc = "exited" /\ exit_code # Some(0)))
             => cursor = pre_cursor)
    /\ [][Pipelines /\ pc = "shell" /\ pc' = "main" /\ runs >= 1
             => pre_cursor' = pre_cursor]_vars

\* A second process starts after a first whose pipeline call raised, over a
\* store that holds a cursor.
C1_Witness ==
    /\ Pipelines
    /\ runs = 2
    /\ pc = "exited"
    /\ RunFailed
    /\ cursor["jira"] = Some(5)

\* C3: once backfill_pipeline(N) has been invoked, the position the next
\* incremental run starts from is N days ago for every source, whatever the
\* cursor was before.
C3_BackfillResetsCursor ==
    Exited /\ Len(called) = 1 /\ called[1].fn = "backfill_pipeline"
        => \A s \in Sources : cursor[s] = called[1].arg

\* C4: the exit code is 0 exactly when the invocation ran its pipeline to
\* successful completion, and it is non-zero whenever a run failed.
C4_ExitCode ==
    Exited => /\ exit_code = Some(0) <=> RunSucceeded
              /\ RunFailed => exit_code # Some(0)

\* A selected pipeline was run, failed, and the process exited non-zero.
C4_Witness ==
    /\ Exited
    /\ Len(called) = 1
    /\ called[1].fn = "jenkins_pipeline"
    /\ RunFailed
    /\ exit_code = Some(1)

\* C5: no exception escapes the top level: every failure of a pipeline
\* function or of argument parsing ends in a non-zero exit with a printed
\* summary.
C5_NothingEscapes ==
    Exited => /\ uncaught = NoException
              /\ exit_code # Some(0) => stdout # <<>>

\* C6: every call of a pipeline function raises NotImplementedError, returns
\* nothing, reads no configuration and leaves cursors, landing files and
\* manifests as the process found them; no success message is ever printed.
C6_StubsOnlyRaise ==
    Pipelines =>
        /\ \A i \in 1..Len(called) :
              /\ called[i].raised = "NotImplementedError"
              /\ called[i].value = None
              /\ ~called[i].config_read
        /\ cursor = pre_cursor
        /\ landing = pre_landing
        /\ manifest = pre_manifest
        /\ \A m \in SuccessMessages : ~Printed(m)
        /\ pc = "exited" /\ called # <<>> => uncaught = "NotImplementedError"

\* backfill_pipeline was called with a negative day-count over a store that
\* holds cursors and a landing file.
C6_Witness ==
    /\ Exited
    /\ Len(called) = 1
    /\ called[1].fn = "backfill_pipeline"
    /\ called[1].arg = Some(0 - 7)
    /\ cursor["jenkins"] = Some(30)
    /\ landing = 1

\* The pipeline function each first argument selects.
Selects(name) ==
    CASE name = "jira"      -> "jira_pipeline"
      [] name = "bitbucket" -> "bitbucket_pipeline"
      [] name = "jenkins"   -> "jenkins_pipeline"
      [] name = "backfill"  -> "backfill_pipeline"

PipelineNames == {"jira", "bitbucket", "jenkins", "backfill"}

\* The integer each command-line word denotes, for the words that denote one.
IntegerWords == {"30", "-7", " 12 "}
IntegerOf(w) ==
    CASE w = "30" -> 30 [] w = "-7" -> 0 - 7 [] w = " 12 " -> 12

\* No pipeline function was called, a message was printed, exit code 1.
Rejected(message) ==
    /\ called = <<>>
    /\ stdout = <<message>>
    /\ exit_code = Some(1)

\* C7 as stated: a first argument among the four names invokes exactly the
\* corresponding function, backfill with the integer value of the second
\* argument or 120; anything else prints a message and exits 1 with no call.
C7_Dispatch ==
    Exited =>
        IF Args # <<>> /\ Args[1] \in PipelineNames
        THEN /\ Len(called) = 1
             /\ called[1].fn = Selects(Args[1])
             /\ Args[1] = "backfill" =>
                   IF Len(Args) >= 2
                   THEN Args[2] \in IntegerWords
                           => called[1].arg = Some(IntegerOf(Args[2]))
                   ELSE called[1].arg = Some(120)
        ELSE Rejected(IF Args = <<>> THEN "Usage" ELSE "Unknown pipeline")

\* C7 as amended: the same, except that backfill with a second argument that
\* is not an integer literal invokes no pipeline function: int() raises
\* ValueError and the process exits with code 1.
C7_DispatchAmended ==
    Exited =>
        IF Args # <<>> /\ Args[1] \in PipelineNames
        THEN IF Args[1] = "backfill" /\ Len(Args) >= 2
                /\ Args[2] \notin IntegerWords
             THEN /\ called = <<>>
                  /\ uncaught = "ValueError"
                  /\ exit_code = Some(1)
             ELSE /\ Len(called) = 1
                  /\ called[1].fn = Selects(Args[1])
                  /\ Args[1] = "backfill" =>
                        called[1].arg = Some(IF Len(Args) >= 2
                                             THEN IntegerOf(Args[2]) ELSE 120)
        ELSE Rejected(IF Args = <<>> THEN "Usage" ELSE "Unknown pipeline")

\* backfill was dispatched with a padded integer as its second argument.
C7_Witness ==
    /\ Exited
    /\ Args = <<"backfill", " 12 ">>
    /\ Len(called) = 1
    /\ called[1].arg = Some(12)

----------------------------------------------------------------------------
(* Properties of validate_env.py *)

Validate == program = "validate_env.py"

SectionNames ==
    <<"Environment Variables", "API Connectivity",
      "Directories & Permissions", "Python Dependencies">>

IsSectionLine(l) == \E i \in 1..Len(SectionNames) : l.text = SectionNames[i]

ApiNames == <<"Jira API", "Bitbucket API", "Jenkins API">>

\* The three credentials of the k-th source.
Credentials(k) ==
    {required_vars[3 * (k - 1) + j] : j \in 1..3}

\* The response to the request sent for api was HTTP 200.
Got200(api) ==
    \E i \in 1..Len(http_log) :
        /\ http_log[i].api = api
        /\ http_log[i].raised = NoException
        /\ http_log[i].status_code = 200

\* The request for api raised.
RequestRaised(api) ==
    \E i \in 1..Len(http_log) :
        http_log[i].api = api /\ http_log[i].raised # NoException

\* C9: check_api_connectivity returns exactly three results, for Jira,
\* Bitbucket and Jenkins in that order, whatever each probe did; a probe
\* that raised is that source's failed result and the later sources are
\* still probed; a result is passed only if the source's three credentials
\* are set and non-empty and its request returned HTTP 200.
C9_ThreeResults ==
    Validate =>
        /\ pc = "probe_bitbucket" => Len(results) = 1
        /\ pc = "probe_jenkins" => Len(results) = 2
        /\ pc = "return_api" => Len(results) = 3
        /\ pc \in {"probe_bitbucket", "probe_jenkins", "return_api"} =>
              \A k \in 1..Len(results) :
                 /\ results[k].name = ApiNames[k]
                 /\ RequestRaised(ApiNames[k]) => ~results[k].passed
                 /\ results[k].passed =>
                       /\ \A v \in Credentials(k) :
                             env[v] # None /\ env[v] # Some(<<>>)
                       /\ Got200(ApiNames[k])

\* The Jira request raised, and Bitbucket was still probed and passed.
C9_Witness ==
    /\ Validate
    /\ pc = "return_api"
    /\ results[1].message = "Error: Timeout"
    /\ results[2].passed
    /\ ~results[3].passed

\* C10: whenever check_env_vars reports one of a source's three variables as
\* missing or empty, check_api_connectivity reports that source as "Missing
\* credentials" and no request is made for it.
C10_CredentialChecksAgree ==
    Validate /\ pc = "exited" =>
        \A k \in 1..3 :
           (\E j \in 1..3 : ~all_checks[1].checks[3 * (k - 1) + j].passed)
              => /\ all_checks[2].checks[k].message = "Missing credentials"
                 /\ \A i \in 1..Len(http_log) : http_log[i].api # ApiNames[k]
====
